---- MODULE Spec2Model ----
(***************************************************************************)
(* The camera and transform engine of the mesh viewer's Canvas widget      *)
(* (src/src/canvas.cpp) as a state machine.                                *)
(*                                                                         *)
(* Numbers.  The code computes in IEEE floating point.  The model keeps    *)
(* three kinds of number, each chosen for what the code does with it:      *)
(*   - `zoom' and the arcball's vectors are floats: a binary format with   *)
(*     MantBits significant bits, round-to-nearest-even; zoom also has a   *)
(*     bounded exponent (ExpMax), subnormals and +infinity;                *)
(*   - pixel positions, viewport sizes and wheel deltas are integers;      *)
(*   - world-space quantities (center, the unprojected points, the         *)
(*     perspective factor, the aspect factors) are exact rationals, and a  *)
(*     world vector that went through the inverse of the camera matrices   *)
(*     is kept as a linear form over the (symbolic) columns of the inverse *)
(*     orientation.  A computation that meets a division by zero, an       *)
(*     infinity or a NaN yields the value NaN, as IEEE arithmetic does.    *)
(***************************************************************************)
EXTENDS Integers, Sequences, FiniteSets, TLC

(***************************************************************************)
(* Bounds of the model.                                                    *)
(***************************************************************************)
\* significant bits of the model's float format (IEEE binary32 has 24)
MantBits == 11
\* largest binary exponent of a finite zoom (binary32 has 127);
\* the smallest normal exponent is 1 - ExpMax, as in IEEE formats
ExpMax == 1
\* number of handler calls explored by the bounded specifications
MaxSteps == 2
\* timer resolution: the 100 ms animation is observed at multiples of 100/AnimTicks ms
AnimTicks == 4
\* largest viewport dimension enumerated by the viewport specification
MaxDim == 3
\* number of perspective requests and animation ticks explored by the
\* animation specification
MaxAnimSteps == 3

(***************************************************************************)
(* Integer helpers.                                                        *)
(***************************************************************************)
Abs(x) == IF x < 0 THEN -x ELSE x

Sign(x) == IF x < 0 THEN -1 ELSE IF x > 0 THEN 1 ELSE 0

Min(a, b) == IF a <= b THEN a ELSE b

RECURSIVE GcdNat(_, _)
GcdNat(a, b) == IF b = 0 THEN a ELSE GcdNat(b, a % b)

Gcd(a, b) == GcdNat(Abs(a), Abs(b))

Pow2(k) == 2 ^ k

\* number of binary digits of n > 0
RECURSIVE BitLen(_)
BitLen(n) == IF n <= 0 THEN 0 ELSE 1 + BitLen(n \div 2)

\* n / d (n >= 0, d > 0) rounded to the nearest integer, ties to even
RoundUp(q, r, d) == IF 2 * r > d \/ (2 * r = d /\ q % 2 = 1) THEN q + 1 ELSE q

RoundDiv(n, d) == RoundUp(n \div d, n % d, d)

\* Newton's iteration for the integer square root of n > 0, from x >= sqrt(n)
RECURSIVE Newton(_, _, _)
Newton(n, x, y) == IF y >= x THEN x ELSE Newton(n, y, (y + n \div y) \div 2)

\* the integer square root of n >= 0
IRoot(n) == IF n = 0 THEN 0 ELSE Newton(n, n, (n + 1) \div 2)

Squared(r) == r * r

IsSquare(n) == n >= 0 /\ Squared(IRoot(n)) = n

(***************************************************************************)
(* Exact rationals <<n, d>>, d > 0, in lowest terms.                       *)
(***************************************************************************)
Reduced(n, d, g, s) == <<s * (n \div g), s * (d \div g)>>

Rat(n, d) == Reduced(n, d, Gcd(n, d), IF d < 0 THEN -1 ELSE 1)

RZero == <<0, 1>>
ROne == <<1, 1>>
RInt(n) == <<n, 1>>
RAddOver(a, b, g) == Rat(a[1] * (b[2] \div g) + b[1] * (a[2] \div g), (a[2] \div g) * b[2])
RAdd(a, b) == RAddOver(a, b, Gcd(a[2], b[2]))
RNeg(a) == <<-a[1], a[2]>>
RSub(a, b) == RAdd(a, RNeg(b))
RMulOver(a, b, g1, g2) == Rat((a[1] \div g1) * (b[1] \div g2), (a[2] \div g2) * (b[2] \div g1))
RMul(a, b) ==
    IF a[1] = 0 \/ b[1] = 0 THEN RZero
    ELSE RMulOver(a, b, Gcd(a[1], b[2]), Gcd(b[1], a[2]))
\* b # 0
RDiv(a, b) == RMul(a, Rat(b[2], b[1]))
RLeq(a, b) == a[1] * b[2] <= b[1] * a[2]
\* the square root of a rational that is the square of a rational
RSqrt(a) == <<IRoot(a[1]), IRoot(a[2])>>
RIsSquare(a) == IsSquare(a[1]) /\ IsSquare(a[2])

(***************************************************************************)
(* Floats <<m, e, c>>: the value m * 2^e when c = 0 (m = 0, or              *)
(* 2^(MantBits-1) <= |m| < 2^MantBits, or a subnormal of the bounded        *)
(* format), +infinity when c = 1, NaN when c = 2.                           *)
(***************************************************************************)
FZero == <<0, 0, 0>>
FInf == <<0, 0, 1>>
FNaN == <<0, 0, 2>>
FIsFinite(x) == x[3] = 0
FIsInf(x) == x[3] = 1
FIsNaN(x) == x[3] = 2

\* smallest quantum exponent of the bounded format (the subnormals' exponent)
QMin == (1 - ExpMax) - (MantBits - 1)

\* floor(log2(n / d)) for n, d > 0
FloorLog2Near(n, d, k) ==
    IF k >= 0
    THEN (IF n >= d * Pow2(k) THEN k ELSE k - 1)
    ELSE (IF n * Pow2(-k) >= d THEN k ELSE k - 1)

FloorLog2(n, d) == FloorLog2Near(n, d, BitLen(n) - BitLen(d))

\* (n / d) * 2^e, n >= 0, d > 0, rounded to the nearest float (ties to even);
\* `bounded' selects the format with exponent range: results below the
\* smallest normal are rounded to a multiple of 2^QMin, results of 2^(ExpMax+1)
\* and above overflow to +infinity
\* the float m * 2^ex of a rounded significand 0 <= m <= 2^MantBits
FPack(m, ex, bounded) ==
    IF m = 0 THEN FZero
    ELSE IF m = Pow2(MantBits)
    THEN (IF bounded /\ ex + MantBits > ExpMax THEN FInf ELSE <<Pow2(MantBits - 1), ex + 1, 0>>)
    ELSE IF bounded /\ ex + (MantBits - 1) > ExpMax THEN FInf
    ELSE <<m, ex, 0>>

\* the rounding of (n / d) * 2^e to a multiple of 2^(e + q)
FRoundAt(n, d, e, q, bounded) ==
    FPack(IF q >= 0 THEN RoundDiv(n, d * Pow2(q)) ELSE RoundDiv(n * Pow2(-q), d),
          e + q, bounded)

\* the quantum exponent (relative to e) for a value of binary logarithm lg
Quantum(lg, e, bounded) ==
    IF bounded /\ e + lg - (MantBits - 1) < QMin THEN QMin - e ELSE lg - (MantBits - 1)

FRound(n, d, e, bounded) ==
    IF n = 0 THEN FZero
    ELSE FRoundAt(n, d, e, Quantum(FloorLog2(n, d), e, bounded), bounded)

FNeg(x) == IF FIsFinite(x) THEN <<-x[1], x[2], 0>> ELSE FNaN

\* the float nearest to the rational r (a double converted to float)
FSigned(s, f) == IF s < 0 THEN FNeg(f) ELSE f

FromRat(r) == FSigned(r[1], FRound(Abs(r[1]), r[2], 0, FALSE))

FOne == FromRat(ROne)

\* float product, rounded once
FMul(x, y) ==
    IF ~(FIsFinite(x) /\ FIsFinite(y)) THEN FNaN
    ELSE FSigned(Sign(x[1]) * Sign(y[1]), FRound(Abs(x[1]) * Abs(y[1]), 1, x[2] + y[2], FALSE))

\* float sum, rounded once; an addend below a quarter ulp of the other does
\* not change the rounded result
FSum(s, e) == FSigned(s, FRound(Abs(s), 1, e, FALSE))

FAddAt(x, y, e) == FSum(x[1] * Pow2(x[2] - e) + y[1] * Pow2(y[2] - e), e)

FAdd(x, y) ==
    IF ~(FIsFinite(x) /\ FIsFinite(y)) THEN FNaN
    ELSE IF x[1] = 0 THEN y
    ELSE IF y[1] = 0 THEN x
    ELSE IF x[2] - y[2] > MantBits + 2 THEN x
    ELSE IF y[2] - x[2] > MantBits + 2 THEN y
    ELSE FAddAt(x, y, Min(x[2], y[2]))

FSub(x, y) == FAdd(x, FNeg(y))

\* x < y on finite floats (a rounded difference keeps the sign of the exact one)
FLess(x, y) == FIsFinite(x) /\ FIsFinite(y) /\ FSub(x, y)[1] < 0

(***************************************************************************)
(* Extended rationals: <<n, d>> with d = 0 is the result of a division by  *)
(* zero (<<0, 0>> is 0/0 = NaN, <<1, 0>> and <<-1, 0>> are the infinities). *)
(***************************************************************************)
XDiv(a, b) == IF b = 0 THEN <<Sign(a), 0>> ELSE Rat(a, b)
XIsFinite(r) == r[2] # 0

(***************************************************************************)
(* Orientation.  QMatrix4x4 rotations have irrational entries; the model   *)
(* keeps currentTransform as the sequence of rotations multiplied into it  *)
(* since setToIdentity, each <<angle, axis>>:                              *)
(*   angle <<0, n, d>>  n/d degrees                                        *)
(*         <<1, m, e>>  acos(m * 2^e) * 180 / pi degrees                   *)
(*         <<2, 0, 0>>  NaN (acos outside [-1, 1])                         *)
(*   axis  three floats; an arcball axis is written in view space and is   *)
(*         mapped through the inverse of the orientation to its left.      *)
(***************************************************************************)
Deg(n) == <<0, n, 1>>
AngleNaN == <<2, 0, 0>>
AngleZero == Deg(0)

\* sin(M_PI/12), to four digits
SinPiOver12 == Rat(2588, 10000)

FVec(x, y, z) == <<FromRat(x), FromRat(y), FromRat(z)>>

Identity == <<>>

\* QMatrix4x4::rotate(angle, axis): multiplies a rotation into the matrix;
\* a rotation by exactly 0 degrees returns at once
Rotate(m, angle, axis) == IF angle = AngleZero THEN m ELSE Append(m, <<angle, axis>>)

\* the orientation resetTransform sets: three rotations of the identity
InitialOrientation ==
    Rotate(Rotate(Rotate(Identity,
        Deg(-90), FVec(ROne, RZero, RZero)),
        Deg(180 + 15), FVec(RZero, RZero, ROne)),
        Deg(15), FVec(ROne, RNeg(SinPiOver12), RZero))

(***************************************************************************)
(* scale: num / sqrt(lenSq), or +infinity (a division by a zero length).   *)
(***************************************************************************)
ScaleOne == [inf |-> FALSE, num |-> 1, lenSq |-> 1]

\* |v|^2 of an integer vector
LengthSquared(v) == v[1] * v[1] + v[2] * v[2] + v[3] * v[3]

\* a fit to a diagonal of length 1 instead of 2
FitScaleUnit(lower, upper) ==
    [inf |-> LengthSquared(<<upper[1] - lower[1], upper[2] - lower[2], upper[3] - lower[3]>>) = 0,
     num |-> 1,
     lenSq |-> LengthSquared(<<upper[1] - lower[1], upper[2] - lower[2], upper[3] - lower[3]>>)]

\* 2 / (upper - lower).length()
FitScale(lower, upper) ==
    LET l2 == LengthSquared(<<upper[1] - lower[1], upper[2] - lower[2], upper[3] - lower[3]>>)
    IN  [inf |-> l2 = 0, num |-> 2, lenSq |-> l2]

(***************************************************************************)
(* World vectors.  c is the rational part; t holds the part that came      *)
(* through an unprojection, as terms <<key, coef>>: coef times the vector  *)
(* R^-1 e_j / (scale * zoom), key = <<R, j, scale, zoom>> naming the       *)
(* orientation R, the view axis j and the scale and zoom in force.  nan    *)
(* marks a vector with a non-finite component.                             *)
(***************************************************************************)
RVec(x, y, z) == <<x, y, z>>

Origin == [nan |-> FALSE, c |-> RVec(RZero, RZero, RZero), t |-> {}]

NaNVec == [nan |-> TRUE, c |-> RVec(RZero, RZero, RZero), t |-> {}]

Coef(T, k) == IF \E x \in T : x[1] = k THEN (CHOOSE x \in T : x[1] = k)[2] ELSE RZero

AddTerms(A, B) ==
    LET keys == {x[1] : x \in A \cup B}
        sum  == {<<k, RAdd(Coef(A, k), Coef(B, k))>> : k \in keys}
    IN  {x \in sum : x[2] # RZero}

NegTerms(A) == {<<x[1], RNeg(x[2])>> : x \in A}

VAdd(a, b) ==
    IF a.nan \/ b.nan THEN NaNVec
    ELSE [nan |-> FALSE,
          c |-> RVec(RAdd(a.c[1], b.c[1]), RAdd(a.c[2], b.c[2]), RAdd(a.c[3], b.c[3])),
          t |-> AddTerms(a.t, b.t)]

VNeg(a) ==
    IF a.nan THEN NaNVec
    ELSE [nan |-> FALSE, c |-> RVec(RNeg(a.c[1]), RNeg(a.c[2]), RNeg(a.c[3])),
          t |-> NegTerms(a.t)]

VSub(a, b) == VAdd(a, VNeg(b))

\* (lower + upper) / 2 of two integer vectors
Midpoint(lower, upper) ==
    [nan |-> FALSE,
     c |-> RVec(Rat(lower[1] + upper[1], 2), Rat(lower[2] + upper[2], 2),
                Rat(lower[3] + upper[3], 2)),
     t |-> {}]

(***************************************************************************)
(* Program constants.                                                      *)
(***************************************************************************)
\* Canvas::P_PERSPECTIVE = 0.25f, Canvas::P_ORTHOGRAPHIC = 0.0f
P_PERSPECTIVE == Rat(1, 4)
P_ORTHOGRAPHIC == RZero
\* the zoom step 1.001 = ZoomStepNum / ZoomStepDen
ZoomStepNum == 1001
ZoomStepDen == 1000

(***************************************************************************)
(* State.                                                                  *)
(***************************************************************************)
VARIABLES
    currentTransform,     \* orientation matrix
    center,               \* world point the view pans around
    scale,                \* fit scale of the loaded mesh
    zoom,                 \* zoom factor (float)
    perspective,          \* perspective factor
    invertZoom,           \* wheel direction flag
    resetTransformOnLoad, \* whether a fresh load resets the orientation
    mouse_pos,            \* last pointer position of a drag, in pixels
    width, height,        \* the widget's size, in pixels
    mesh,                 \* bounding box <<lower, upper>> of the GLMesh drawn, <<>> when none
    anim,                 \* the QPropertyAnimation on "perspective"
    uniforms,             \* what the last paintGL handed to the renderer
    requested,            \* target of the most recent view_perspective call
    last,                 \* the handler that ran last, with its arguments
    steps                 \* handler calls so far

vars == <<currentTransform, center, scale, zoom, perspective, invertZoom,
          resetTransformOnLoad, mouse_pos, width, height, mesh, anim, uniforms,
          requested, last, steps>>

NoMesh == <<>>
NoBox == <<<<0, 0, 0>>, <<0, 0, 0>>>>

Call(op, pos, delta, flag, buttons, box, val) ==
    [op |-> op, pos |-> pos, delta |-> delta, flag |-> flag, buttons |-> buttons,
     box |-> box, val |-> val]

NoUniforms == [painted |-> FALSE, aspect |-> <<RZero, RZero, RZero>>, zoom |-> FZero]

(***************************************************************************)
(* ProjectionPipeline.                                                     *)
(***************************************************************************)
\* Canvas::orient_matrix
orient_matrix(ct) == ct

\* Canvas::transform_matrix: orientation, then scale, then translate by -center
transform_matrix(ct, s, c) == [orient |-> orient_matrix(ct), scale |-> s, translate |-> VNeg(c)]

\* Canvas::aspect_matrix: the diagonal <<x, y, z>> of the scaling
aspect_matrix(w, h) ==
    IF w > h
    THEN <<XDiv(-h, w), ROne, Rat(1, 2)>>
    ELSE <<RInt(-1), XDiv(w, h), Rat(1, 2)>>

\* Canvas::view_matrix: aspect, then scale x and y by zoom, then m(3, 2) = perspective
view_matrix(w, h, z, p) == [aspect |-> aspect_matrix(w, h), zoom |-> z, persp |-> p]

\* whether the two matrices are finite and invertible
Invertible(T, V) ==
    /\ ~T.scale.inf
    /\ ~T.translate.nan
    /\ FIsFinite(V.zoom) /\ V.zoom[1] # 0
    /\ XIsFinite(V.aspect[1]) /\ V.aspect[1][1] # 0
    /\ XIsFinite(V.aspect[2]) /\ V.aspect[2][1] # 0

\* transform_matrix().inverted() * view_matrix().inverted() * QVector3D(u[1], u[2], 0)
\* for extended rationals u[1], u[2].  The view matrix maps (x, y, 0) to
\* (ax*zoom*x, ay*zoom*y, 0) with w = 1, so its inverse divides by ax*zoom and
\* ay*zoom whatever the perspective; the transform's inverse divides by scale,
\* rotates back and adds center.
Unproject(T, V, u) ==
    IF ~(Invertible(T, V) /\ XIsFinite(u[1]) /\ XIsFinite(u[2])) THEN NaNVec
    ELSE
    LET k(j) == <<T.orient, j, T.scale, V.zoom>>
        back == {<<k(j), RDiv(u[j], V.aspect[j])>> : j \in {1, 2}}
    IN  VAdd(VNeg(T.translate),
             [nan |-> FALSE, c |-> Origin.c, t |-> {x \in back : x[2] # RZero}])

(***************************************************************************)
(* Construction.  The constructor sets scale and zoom to 1, builds the     *)
(* animation (100 ms, no key values yet) and calls resetTransform.  The    *)
(* members it does not initialise (perspective, invertZoom,                *)
(* resetTransformOnLoad) and the widget's first size are set by the        *)
(* application before any event; Init draws them from their ranges.        *)
(***************************************************************************)
Viewports == {<<4, 2>>, <<2, 4>>}

IdleAnimation == [running |-> FALSE, startValue |-> RZero, endValue |-> RZero, currentTime |-> 0]

Constructed(sizes) ==
    /\ currentTransform = InitialOrientation
    /\ center = Origin
    /\ scale = ScaleOne
    /\ zoom = FOne
    /\ perspective \in {P_ORTHOGRAPHIC, P_PERSPECTIVE}
    /\ invertZoom \in BOOLEAN
    /\ resetTransformOnLoad \in BOOLEAN
    /\ mouse_pos = <<0, 0>>
    /\ \E vp \in sizes : width = vp[1] /\ height = vp[2]
    /\ mesh = NoMesh
    /\ anim = IdleAnimation
    /\ uniforms = NoUniforms
    /\ requested = perspective
    /\ last = Call("Canvas", <<0, 0>>, 0, FALSE, {}, NoBox, RZero)
    /\ steps = 0

Init == Constructed(Viewports)

(***************************************************************************)
(* PerspectiveAnimator.                                                    *)
(***************************************************************************)
\* the animation's value at time t: linear from startValue to endValue
Interpolated(a, t) ==
    RAdd(a.startValue, RMul(RSub(a.endValue, a.startValue), Rat(t, AnimTicks)))

\* Canvas::set_perspective
set_perspective(p) ==
    /\ perspective' = p

\* Canvas::view_anim: setStartValue(perspective); setEndValue(v); start().
\* On a running animation the new key values are applied at the current
\* time (the property is rewritten at once) and start() returns without
\* restarting; on a stopped one start() sets the time to 0 and writes the
\* start value.
view_anim(v) ==
    LET keyed == [anim EXCEPT !.startValue = perspective, !.endValue = v]
    IN  IF anim.running
        THEN /\ anim' = keyed
             /\ set_perspective(Interpolated(keyed, anim.currentTime))
        ELSE /\ anim' = [keyed EXCEPT !.running = TRUE, !.currentTime = 0]
             /\ set_perspective(Interpolated(keyed, 0))

\* Canvas::view_perspective
view_perspective(p, animate) ==
    /\ IF animate THEN view_anim(p) ELSE set_perspective(p) /\ UNCHANGED anim
    /\ requested' = p
    /\ last' = Call("view_perspective", <<0, 0>>, 0, animate, {}, NoBox, p)
    /\ UNCHANGED <<currentTransform, center, scale, zoom, invertZoom, resetTransformOnLoad,
                   mouse_pos, width, height, mesh, uniforms>>

\* a timer tick of the running animation, dt time units after the last:
\* the property is written with the interpolated value, and the animation
\* stops when it reaches its duration
AnimationTick(dt) ==
    /\ anim.running
    /\ LET t == Min(anim.currentTime + dt, AnimTicks)
       IN  /\ anim' = [anim EXCEPT !.currentTime = t, !.running = t < AnimTicks]
           /\ set_perspective(Interpolated(anim, t))
    /\ last' = Call("animationTick", <<0, 0>>, dt, FALSE, {}, NoBox, RZero)
    /\ UNCHANGED <<currentTransform, center, scale, zoom, invertZoom, resetTransformOnLoad,
                   mouse_pos, width, height, mesh, uniforms, requested>>

(***************************************************************************)
(* Configuration toggles.                                                  *)
(***************************************************************************)
\* Canvas::invert_zoom
invert_zoom(d) ==
    /\ invertZoom' = d
    /\ last' = Call("invert_zoom", <<0, 0>>, 0, d, {}, NoBox, RZero)
    /\ UNCHANGED <<currentTransform, center, scale, zoom, perspective, resetTransformOnLoad,
                   mouse_pos, width, height, mesh, anim, uniforms, requested>>

\* Canvas::setResetTransformOnLoad
setResetTransformOnLoad(d) ==
    /\ resetTransformOnLoad' = d
    /\ last' = Call("setResetTransformOnLoad", <<0, 0>>, 0, d, {}, NoBox, RZero)
    /\ UNCHANGED <<currentTransform, center, scale, zoom, perspective, invertZoom,
                   mouse_pos, width, height, mesh, anim, uniforms, requested>>

\* the widget is resized (resizeGL only sets the GL viewport)
resizeGL(w, h) ==
    /\ width' = w
    /\ height' = h
    /\ last' = Call("resizeGL", <<w, h>>, 0, FALSE, {}, NoBox, RZero)
    /\ UNCHANGED <<currentTransform, center, scale, zoom, perspective, invertZoom,
                   resetTransformOnLoad, mouse_pos, mesh, anim, uniforms, requested>>

(***************************************************************************)
(* Reset and MeshFraming.                                                  *)
(***************************************************************************)
\* a reset that also moves center back to the origin
resetTransformRecentre ==
    /\ currentTransform' = InitialOrientation
    /\ zoom' = FOne
    /\ center' = Origin
    /\ last' = Call("resetTransform", <<0, 0>>, 0, FALSE, {}, NoBox, RZero)
    /\ UNCHANGED <<scale, perspective, invertZoom, resetTransformOnLoad,
                   mouse_pos, width, height, mesh, anim, uniforms, requested>>

\* Canvas::resetTransform
resetTransform ==
    /\ currentTransform' = InitialOrientation
    /\ zoom' = FOne
    /\ last' = Call("resetTransform", <<0, 0>>, 0, FALSE, {}, NoBox, RZero)
    /\ UNCHANGED <<center, scale, perspective, invertZoom, resetTransformOnLoad,
                   mouse_pos, width, height, mesh, anim, uniforms, requested>>

\* a load that frames the mesh whether or not it is a reload
load_meshAlwaysFrames(box, is_reload) ==
    /\ mesh' = box
    /\ center' = Midpoint(box[1], box[2])
    /\ scale' = FitScale(box[1], box[2])
    /\ zoom' = FOne
    /\ currentTransform' = IF resetTransformOnLoad THEN InitialOrientation ELSE currentTransform
    /\ last' = Call("load_mesh", <<0, 0>>, 0, is_reload, {}, box, RZero)
    /\ UNCHANGED <<perspective, invertZoom, resetTransformOnLoad, mouse_pos, width,
                   height, anim, uniforms, requested>>

\* Canvas::load_mesh, for a mesh with bounding box <<lower, upper>>
load_mesh(box, is_reload) ==
    LET lower == box[1]
        upper == box[2]
    IN  /\ mesh' = box
        /\ IF ~is_reload
           THEN /\ center' = Midpoint(lower, upper)
                /\ scale' = FitScale(lower, upper)
                /\ zoom' = FOne
                /\ currentTransform' = IF resetTransformOnLoad THEN InitialOrientation
                                       ELSE currentTransform
           ELSE UNCHANGED <<center, scale, zoom, currentTransform>>
        /\ last' = Call("load_mesh", <<0, 0>>, 0, is_reload, {}, box, RZero)
        /\ UNCHANGED <<perspective, invertZoom, resetTransformOnLoad, mouse_pos, width,
                       height, anim, uniforms, requested>>

(***************************************************************************)
(* ArcballController.                                                      *)
(***************************************************************************)
\* Canvas::mousePressEvent
mousePressEvent(button, pos) ==
    /\ mouse_pos' = IF button \in {"Left", "Right"} THEN pos ELSE mouse_pos
    /\ last' = Call("mousePressEvent", pos, 0, FALSE, {button}, NoBox, RZero)
    /\ UNCHANGED <<currentTransform, center, scale, zoom, perspective, invertZoom,
                   resetTransformOnLoad, width, height, mesh, anim, uniforms, requested>>

\* Canvas::changeMouseCoordinates: pixel to [-1, 1] x [-1, 1], as extended rationals
changeMouseCoordinates(p, w, h) == <<XDiv(2 * p[1] - w, w), XDiv(2 * p[2] - h, h)>>

\* floor(L / 2)
HalfFloor(L) == IF L >= 0 THEN L \div 2 ELSE -((1 - L) \div 2)

\* sqrt(X) / D rounded to the nearest integer, for r = floor(sqrt(X)):
\* m0 = floor(sqrt(X) / D) is floor(r / D), and it is rounded up when
\* 2 sqrt(X) >= (2 m0 + 1) D, where floor(2 sqrt(X)) is 2r + 1 if X - r*r > r
\* and 2r otherwise (no tie arises: sqrt(X) / D is irrational here)
SqrtPick(m0, K, s) == IF s >= K THEN m0 + 1 ELSE m0

SqrtRounded(X, D, r) ==
    SqrtPick(r \div D, (2 * (r \div D) + 1) * D, 2 * r + (IF X - r * r > r THEN 1 ELSE 0))

\* the float nearest to sqrt(N) / d * 2^k, times 2^-k
FSqrtAt(N, d, k) ==
    IF k >= 0
    THEN FPack(SqrtRounded(N * Pow2(2 * k), d, IRoot(N * Pow2(2 * k))), -k, FALSE)
    ELSE FPack(SqrtRounded(N, d * Pow2(-k), IRoot(N)), -k, FALSE)

\* the float nearest to the square root of the rational q >= 0
FSqrt(q) ==
    IF q[1] = 0 THEN FZero
    ELSE IF RIsSquare(q) THEN FromRat(RSqrt(q))
    ELSE FSqrtAt(q[1] * q[2], q[2], (MantBits - 1) - HalfFloor(FloorLog2(q[1], q[2])))

\* x / sqrt(psq) as a float: the sign of x and the square root of x^2 / psq
Normalized(x, psq) == FSigned(x[1], FSqrt(RDiv(RMul(x, x), psq)))

\* the point of the unit hemisphere for the point pr of the plane with
\* pr.x^2 + pr.y^2 = psq (calcArcballTransform, "Calc z1 & z2"), as the
\* three floats of the QVector3D built from it
Lifted(pr, psq) ==
    IF RLeq(psq, ROne)
    THEN <<FromRat(pr[1]), FromRat(pr[2]), FSqrt(RSub(ROne, psq))>>
    ELSE <<Normalized(pr[1], psq), Normalized(pr[2], psq), FZero>>

Hemisphere(pr) == Lifted(pr, RAdd(RMul(pr[1], pr[1]), RMul(pr[2], pr[2])))

\* QVector3D::crossProduct, in float arithmetic
crossProduct(a, b) ==
    <<FSub(FMul(a[2], b[3]), FMul(a[3], b[2])),
      FSub(FMul(a[3], b[1]), FMul(a[1], b[3])),
      FSub(FMul(a[1], b[2]), FMul(a[2], b[1]))>>

\* QVector3D::dotProduct, in float arithmetic
dotProduct(a, b) == FAdd(FAdd(FMul(a[1], b[1]), FMul(a[2], b[2])), FMul(a[3], b[3]))

\* std::min(1.0f, d)
ClampDot(d) == IF FLess(d, FOne) THEN d ELSE FOne

\* acos(c) * 180.0 / M_PI: 0 at 1, NaN outside [-1, 1]
AcosDegrees(c) ==
    IF ~FIsFinite(c) THEN AngleNaN
    ELSE IF c = FOne THEN AngleZero
    ELSE IF FLess(FOne, c) \/ FLess(c, FNeg(FOne)) THEN AngleNaN
    ELSE <<1, c[1], c[2]>>

\* the angle calcArcballTransform computes for the two plane points
ArcballAngle(p1, p2) ==
    IF ~(XIsFinite(p1[1]) /\ XIsFinite(p1[2]) /\ XIsFinite(p2[1]) /\ XIsFinite(p2[2]))
    THEN AngleNaN
    ELSE AcosDegrees(ClampDot(dotProduct(Hemisphere(p1), Hemisphere(p2))))

\* the view-space axis v1 x v2 calcArcballTransform computes
ArcballAxis(p1, p2) ==
    IF ~(XIsFinite(p1[1]) /\ XIsFinite(p1[2]) /\ XIsFinite(p2[1]) /\ XIsFinite(p2[2]))
    THEN <<FNaN, FNaN, FNaN>>
    ELSE crossProduct(Hemisphere(p1), Hemisphere(p2))

\* Canvas::calcArcballTransform: the orientation after the rotation
calcArcballTransform(ct, p1, p2) == Rotate(ct, ArcballAngle(p1, p2), ArcballAxis(p1, p2))

\* Canvas::mouseMoveEvent with the pointer at p and the buttons held
mouseMoveEvent(p, buttons) ==
    LET d == <<p[1] - mouse_pos[1], p[2] - mouse_pos[2]>>
    IN  /\ IF "Left" \in buttons
           THEN /\ currentTransform' =
                       calcArcballTransform(currentTransform,
                           changeMouseCoordinates(mouse_pos, width, height),
                           changeMouseCoordinates(p, width, height))
                /\ UNCHANGED center
           ELSE IF "Right" \in buttons
           THEN /\ center' = Unproject(transform_matrix(currentTransform, scale, center),
                                       view_matrix(width, height, zoom, perspective),
                                       <<XDiv(-2 * d[1], width), XDiv(2 * d[2], height)>>)
                /\ UNCHANGED currentTransform
           ELSE UNCHANGED <<currentTransform, center>>
        /\ mouse_pos' = p
        /\ last' = Call("mouseMoveEvent", p, 0, FALSE, buttons, NoBox, RZero)
        /\ UNCHANGED <<scale, zoom, perspective, invertZoom, resetTransformOnLoad,
                       width, height, mesh, anim, uniforms, requested>>

(***************************************************************************)
(* ZoomController.                                                         *)
(***************************************************************************)
\* zoom *= 1.001
ZoomTimesStep(z) ==
    IF FIsFinite(z) THEN FRound(z[1] * ZoomStepNum, ZoomStepDen, z[2], TRUE) ELSE z

\* zoom /= 1.001
ZoomOverStep(z) ==
    IF FIsFinite(z) THEN FRound(z[1] * ZoomStepDen, ZoomStepNum, z[2], TRUE) ELSE z

\* the loop for (int i=0; i > dy; --i) of wheelEvent
RECURSIVE LoopDown(_, _, _, _)
LoopDown(z, i, dy, inv) ==
    IF i > dy
    THEN LoopDown(IF inv THEN ZoomOverStep(z) ELSE ZoomTimesStep(z), i - 1, dy, inv)
    ELSE z

\* the loop for (int i=0; i < dy; ++i) of wheelEvent
RECURSIVE LoopUp(_, _, _, _)
LoopUp(z, i, dy, inv) ==
    IF i < dy
    THEN LoopUp(IF inv THEN ZoomTimesStep(z) ELSE ZoomOverStep(z), i + 1, dy, inv)
    ELSE z

\* one zoom step per event, whatever the size of the delta
WheelZoomOnce(z, dy, inv) ==
    IF dy < 0 THEN LoopDown(z, 0, -1, inv)
    ELSE IF dy > 0 THEN LoopUp(z, 0, 1, inv)
    ELSE z

\* zoom after the two loops of wheelEvent, for angleDelta().y() = dy
WheelZoom(z, dy, inv) ==
    IF dy < 0 THEN LoopDown(z, 0, dy, inv)
    ELSE IF dy > 0 THEN LoopUp(z, 0, dy, inv)
    ELSE z

\* the vector v wheelEvent unprojects for the cursor position p
WheelVector(p, w, h) == <<XDiv(w - 2 * p[1], w), XDiv(2 * p[2] - h, h)>>

\* center -= b - a
ZoomAboutSwapped(p, z) ==
    VAdd(center,
         VSub(Unproject(transform_matrix(currentTransform, scale, center),
                        view_matrix(width, height, zoom, perspective),
                        WheelVector(p, width, height)),
              Unproject(transform_matrix(currentTransform, scale, center),
                        view_matrix(width, height, z, perspective),
                        WheelVector(p, width, height))))

\* center after wheelEvent: a and b are the unprojections of v under the old
\* zoom and under the new zoom z, and center += b - a
ZoomAbout(p, z) ==
    VAdd(center,
         VSub(Unproject(transform_matrix(currentTransform, scale, center),
                        view_matrix(width, height, z, perspective),
                        WheelVector(p, width, height)),
              Unproject(transform_matrix(currentTransform, scale, center),
                        view_matrix(width, height, zoom, perspective),
                        WheelVector(p, width, height))))

\* Canvas::wheelEvent with the cursor at p and angleDelta().y() = dy
wheelEvent(p, dy) ==
        /\ zoom' = WheelZoom(zoom, dy, invertZoom)
        /\ center' = ZoomAbout(p, WheelZoom(zoom, dy, invertZoom))
        /\ last' = Call("wheelEvent", p, dy, FALSE, {}, NoBox, RZero)
        /\ UNCHANGED <<currentTransform, scale, perspective, invertZoom,
                       resetTransformOnLoad, mouse_pos, width, height, mesh, anim,
                       uniforms, requested>>

(***************************************************************************)
(* Rendering.                                                              *)
(***************************************************************************)
\* the float 1 / z handed to the shader
Reciprocal(z) ==
    IF FIsNaN(z) THEN FNaN
    ELSE IF FIsInf(z) THEN FZero
    ELSE IF z[1] = 0 THEN FInf
    ELSE IF z[2] >= 0 THEN FRound(1, z[1] * Pow2(z[2]), 0, TRUE)
    ELSE FRound(Pow2(-z[2]), z[1], 0, TRUE)

\* Canvas::paintGL with a mesh: draw_mesh loads the matrices and 1/zoom
paintGL ==
    /\ uniforms' = IF mesh # NoMesh
                   THEN [painted |-> TRUE,
                         aspect |-> view_matrix(width, height, zoom, perspective).aspect,
                         zoom |-> Reciprocal(zoom)]
                   ELSE uniforms
    /\ last' = Call("paintGL", <<0, 0>>, 0, FALSE, {}, NoBox, RZero)
    /\ UNCHANGED <<currentTransform, center, scale, zoom, perspective, invertZoom,
                   resetTransformOnLoad, mouse_pos, width, height, mesh, anim, requested>>

(***************************************************************************)
(* The viewer: every handler, on small inputs, for MaxSteps calls.         *)
(***************************************************************************)
\* bounding boxes of the meshes loaded: diagonals 3 and 6, and a single point
Boxes == {<<<<0, 0, 0>>, <<1, 2, 2>>>>, <<<<-1, -2, -2>>, <<1, 2, 2>>>>,
          <<<<1, 1, 1>>, <<1, 1, 1>>>>}

\* pointer positions, in pixels
Pixels == {<<2, 2>>, <<4, 2>>, <<1, 1>>}

\* wheel deltas
Deltas == {-2, 0, 1}

Budget == steps < MaxSteps /\ steps' = steps + 1

LoadMesh == Budget /\ \E box \in Boxes, r \in BOOLEAN : load_mesh(box, r)

ResetView == Budget /\ resetTransform

InvertZoom == Budget /\ \E d \in BOOLEAN : invert_zoom(d)

SetResetOnLoad == Budget /\ \E d \in BOOLEAN : setResetTransformOnLoad(d)

Press == Budget /\ \E b \in {"Left", "Middle"}, p \in Pixels : mousePressEvent(b, p)

DragLeft == Budget /\ \E p \in Pixels : mouseMoveEvent(p, {"Left"})

DragOther == Budget /\ \E p \in Pixels, b \in {{}, {"Right"}} : mouseMoveEvent(p, b)

Wheel == Budget /\ \E p \in Pixels, dy \in Deltas : wheelEvent(p, dy)

ViewPerspective ==
    Budget /\ \E p \in {P_ORTHOGRAPHIC, P_PERSPECTIVE}, a \in BOOLEAN : view_perspective(p, a)

Tick == Budget /\ \E dt \in 1..AnimTicks : AnimationTick(dt)

Paint == Budget /\ paintGL

Next ==
    \/ LoadMesh
    \/ ResetView
    \/ InvertZoom
    \/ SetResetOnLoad
    \/ Press
    \/ DragLeft
    \/ DragOther
    \/ Wheel
    \/ ViewPerspective
    \/ Tick
    \/ Paint

Spec == Init /\ [][Next]_vars

(***************************************************************************)
(* The zoom range: wheel events at the centre of the widget (where         *)
(* center does not move), resets, loads and direction toggles, without a   *)
(* bound on the number of calls.  The members that do not influence zoom   *)
(* are fixed.                                                              *)
(***************************************************************************)
\* angleDelta().y() of one step of a high-resolution wheel, either way
ZoomDeltas == {-8, 8}

ZoomBox == <<<<0, 0, 0>>, <<1, 2, 2>>>>

InitZoom ==
    /\ Constructed({<<4, 4>>})
    /\ perspective = P_ORTHOGRAPHIC
    /\ resetTransformOnLoad

ZoomWheel ==
    /\ \E dy \in ZoomDeltas : wheelEvent(<<width \div 2, height \div 2>>, dy)
    /\ UNCHANGED steps

ZoomInvert == (\E d \in BOOLEAN : invert_zoom(d)) /\ UNCHANGED steps

ZoomReset == resetTransform /\ UNCHANGED steps

ZoomLoad == (\E r \in BOOLEAN : load_mesh(ZoomBox, r)) /\ UNCHANGED steps

NextZoom ==
    \/ ZoomWheel
    \/ ZoomInvert
    \/ ZoomReset
    \/ ZoomLoad

SpecZoom == InitZoom /\ [][NextZoom]_vars

(***************************************************************************)
(* The animation: perspective requests, instant and animated, interleaved  *)
(* with the animation's ticks.  The members that do not influence          *)
(* perspective are fixed.                                                  *)
(***************************************************************************)
InitAnim ==
    /\ Constructed({<<4, 4>>})
    /\ ~invertZoom
    /\ resetTransformOnLoad

AnimBudget == steps < MaxAnimSteps /\ steps' = steps + 1

AnimRequest ==
    AnimBudget /\ \E p \in {P_ORTHOGRAPHIC, P_PERSPECTIVE}, a \in BOOLEAN : view_perspective(p, a)

AnimTick == AnimBudget /\ \E dt \in 1..AnimTicks : AnimationTick(dt)

NextAnim ==
    \/ AnimRequest
    \/ AnimTick

SpecAnim == InitAnim /\ [][NextAnim]_vars

(***************************************************************************)
(* The arcball on a 274 x 274 widget, dragged between the centre, the      *)
(* right edge, and the two antipodal rim points (88/137, 105/137, 0) and   *)
(* (-88/137, -105/137, 0).                                                 *)
(***************************************************************************)
ArcViewport == <<274, 274>>

ArcPixels == {<<137, 137>>, <<274, 137>>, <<225, 242>>, <<49, 32>>}

InitArc == Constructed({ArcViewport})

ArcPress == Budget /\ \E p \in ArcPixels : mousePressEvent("Left", p)

ArcDrag == Budget /\ \E p \in ArcPixels : mouseMoveEvent(p, {"Left"})

NextArc ==
    \/ ArcPress
    \/ ArcDrag

SpecArc == InitArc /\ [][NextArc]_vars

(***************************************************************************)
(* The viewport: the widget resized to every size up to MaxDim, zero       *)
(* included, with loads and repaints.                                      *)
(***************************************************************************)
Resize == Budget /\ \E w \in 0..MaxDim, h \in 0..MaxDim : resizeGL(w, h)

NextView ==
    \/ Resize
    \/ LoadMesh
    \/ Paint

SpecView == Init /\ [][NextView]_vars

(***************************************************************************)
(* Properties.                                                             *)
(***************************************************************************)
FreshLoad(c) == c.op = "load_mesh" /\ ~c.flag

\* C1: a load_mesh call with is_reload = TRUE leaves center, scale, zoom and
\* currentTransform exactly as they were before the call
ReloadKeepsFrame ==
    [][(last'.op = "load_mesh" /\ last'.flag) =>
           /\ center' = center
           /\ scale' = scale
           /\ zoom' = zoom
           /\ currentTransform' = currentTransform]_vars

\* a reload has run on a camera that is not the one a fresh load of the same
\* mesh would set
ReloadedAwayFromFit ==
    /\ last.op = "load_mesh" /\ last.flag
    /\ mesh = last.box
    /\ zoom # FOne
    /\ center # Midpoint(last.box[1], last.box[2])
    /\ scale # FitScale(last.box[1], last.box[2])

\* s * |upper - lower| = 2 for the scale s = num / sqrt(lenSq)
FitsBox(s, lower, upper) ==
    /\ ~s.inf
    /\ s.num > 0
    /\ s.num * s.num
         * LengthSquared(<<upper[1] - lower[1], upper[2] - lower[2], upper[3] - lower[3]>>)
       = 4 * s.lenSq

\* C2: after load_mesh with is_reload = FALSE on a box with max # min,
\* center is the box's midpoint, scale * |max - min| = 2, zoom = 1, and
\* currentTransform is the initial orientation if resetTransformOnLoad is set
\* and is unchanged otherwise
FreshLoadFrames ==
    [][(FreshLoad(last') /\ last'.box[1] # last'.box[2]) =>
           /\ center' = Midpoint(last'.box[1], last'.box[2])
           /\ FitsBox(scale', last'.box[1], last'.box[2])
           /\ zoom' = FOne
           /\ currentTransform' = IF resetTransformOnLoad THEN InitialOrientation
                                  ELSE currentTransform]_vars

\* a fresh load of a box with max # min has run with resetTransformOnLoad
\* unset on an orientation the arcball had changed
FreshLoadKeptOrientation ==
    /\ FreshLoad(last) /\ last.box[1] # last.box[2]
    /\ ~resetTransformOnLoad
    /\ currentTransform # InitialOrientation
    /\ zoom = FOne
    /\ center = Midpoint(last.box[1], last.box[2])

\* the unprojection of u through the transform and view matrices of a camera
UnprojectAt(ct, s, c, w, h, z, persp, u) ==
    Unproject(transform_matrix(ct, s, c), view_matrix(w, h, z, persp), u)

\* whether a camera's transform and view matrices are finite and invertible
InvertibleAt(ct, s, c, w, h, z, persp) ==
    Invertible(transform_matrix(ct, s, c), view_matrix(w, h, z, persp))

FrameInvertible == InvertibleAt(currentTransform, scale, center, width, height, zoom, perspective)

\* -u
Opposite(u) == <<<<-u[1][1], u[1][2]>>, <<-u[2][1], u[2][2]>>>>

\* the device coordinates (2x/w - 1, 1 - 2y/h) of pixel p: the opposite of
\* the vector wheelEvent unprojects
DeviceCoordinates(p, w, h) == Opposite(WheelVector(p, w, h))

FieldOwnership ==
    [][/\ currentTransform' # currentTransform =>
              last'.op = "mouseMoveEvent" /\ "Left" \in last'.buttons
       /\ (zoom' # zoom \/ center' # center) => last'.op \in {"wheelEvent", "load_mesh"}
       /\ perspective' # perspective => last'.op \in {"view_perspective", "animationTick"}]_vars

\* C4, amended: currentTransform is changed only by a left-button drag,
\* resetTransform and a fresh load with resetTransformOnLoad set; zoom only
\* by wheelEvent, resetTransform and a fresh load; center only by wheelEvent,
\* a right-button drag and a fresh load; scale only by a fresh load;
\* perspective only by view_perspective and the animation's ticks
FieldWriters ==
    [][/\ currentTransform' # currentTransform =>
              \/ last'.op = "mouseMoveEvent" /\ "Left" \in last'.buttons
              \/ last'.op = "resetTransform"
              \/ FreshLoad(last') /\ resetTransformOnLoad
       /\ zoom' # zoom =>
              \/ last'.op = "wheelEvent"
              \/ last'.op = "resetTransform"
              \/ FreshLoad(last')
       /\ center' # center =>
              \/ last'.op = "wheelEvent"
              \/ last'.op = "mouseMoveEvent" /\ "Right" \in last'.buttons
                                             /\ "Left" \notin last'.buttons
              \/ FreshLoad(last')
       /\ scale' # scale => FreshLoad(last')
       /\ perspective' # perspective => last'.op \in {"view_perspective", "animationTick"}]_vars

\* a right-button drag has moved center
PannedByRightDrag ==
    /\ last.op = "mouseMoveEvent" /\ last.buttons = {"Right"}
    /\ center.t # {}
    /\ currentTransform = InitialOrientation

\* C5: once no animation is running, perspective is the target of the most
\* recent view_perspective call
PerspectiveSettlesOnRequest == ~anim.running => perspective = requested

\* n zoom steps of factor 1.001, multiplying or dividing
RECURSIVE Compounded(_, _, _)
Compounded(z, n, times) ==
    IF n = 0 THEN z
    ELSE Compounded(IF times THEN ZoomTimesStep(z) ELSE ZoomOverStep(z), n - 1, times)

\* C6: a wheel event with delta d applies |d| zoom steps of factor 1.001:
\* with invertZoom unset d > 0 divides and d < 0 multiplies, with invertZoom
\* set the directions are swapped, and d = 0 leaves zoom unchanged
WheelCompounds ==
    [][\A dy \in Deltas :
           (last'.op = "wheelEvent" /\ last'.delta = dy) =>
               zoom' = Compounded(zoom, Abs(dy), (dy < 0) # invertZoom)]_vars

\* a wheel event of delta -2 has multiplied a zoom of 1 twice
ZoomedTwoSteps ==
    /\ last.op = "wheelEvent" /\ last.delta = -2
    /\ ~invertZoom
    /\ zoom = ZoomTimesStep(ZoomTimesStep(FOne))
    /\ zoom # ZoomTimesStep(FOne)

\* C7: zoom is a strictly positive number, so that 1/zoom and the inverse
\* of the view matrix are defined
ZoomPositive ==
    /\ FIsFinite(zoom) /\ zoom[1] > 0
    /\ FIsFinite(Reciprocal(zoom)) /\ Reciprocal(zoom)[1] > 0

\* C8: scale is a strictly positive finite number
ScalePositiveFinite == ~scale.inf /\ scale.num > 0 /\ scale.lenSq > 0

\* C9: every rotation the arcball has multiplied into the orientation has a
\* defined angle (the inverse cosine of a number in [-1, 1])
ArcballAngleDefined ==
    \A i \in 1..Len(currentTransform) : currentTransform[i][1] # AngleNaN

\* C10: the factors of aspect_matrix are computed without a division by zero
\* for the widget's size, whatever it is
AspectDefined ==
    /\ XIsFinite(aspect_matrix(width, height)[1])
    /\ XIsFinite(aspect_matrix(width, height)[2])

====
